---- MODULE Spec2Model ----
(***************************************************************************)
(* Model of the monitoring/alerting engine of up-server: the ping path     *)
(* (api/v1/ping.rs, CheckRepository::ping), the overdue detector           *)
(* (CheckRepository::enqueue_notification_alerts_for_overdue_pings) and    *)
(* the alert delivery worker (NotificationRepository::send_alert_batch),   *)
(* running as concurrent PostgreSQL transactions (READ COMMITTED: every    *)
(* statement reads the rows committed so far plus its transaction's own    *)
(* writes; NOW() is the start time of the transaction). The periodic jobs   *)
(* that run the detector and the worker (jobs/enqueue_alerts.rs,           *)
(* jobs/send_alerts.rs) are modelled with their spawn() and stop(),         *)
(* mask::ping_key as the operator ping_key, and the management operations  *)
(* CheckRepository::update and NotificationRepository::delete as actions.  *)
(***************************************************************************)
EXTENDS Integers, Sequences, FiniteSets, TLC

\* ------------------------------------------------------------------ bounds
\* The clock is read at 0 and 1 and in the minutes Hour + 1 .. Hour + MaxLate.
MaxLate == 2
\* Transactions of the delivery worker that may fail with a store error.
MaxStoreErrors == 1

\* Longest ping key handed to mask::ping_key.
MaxKeyLen == 5

\* --------------------------------------------------------------- constants
\* INTERVAL '1' HOUR and INTERVAL '1' DAY, in minutes.
Hour == 60
Day == 1440
\* LIMIT of the claim query.
ClaimLimit == 10

\* SQL NULL of a timestamp / interval / boolean column (times are >= 0).
Null == 0 - 1
SqlTrue == 1
SqlFalse == 0

CheckIds == {"c1", "c2", "c3"}
NotifIds == {"n1", "n2"}
\* instances of the delivery worker and of the detector (server processes)
Workers == {"w1", "w2"}
Detectors == {"d1", "d2"}
\* the instances of a deployment of one server process
OneWorker == {"w1"}
OneDetector == {"d1"}
\* ping keys callers send: the keys of c1 and of c3 and a key of no check
Keys == {"k1", "k3", "kx"}

\* the periodic jobs of a server process; the loop tasks of EnqueueAlerts are
\* detectors and those of SendAlerts are delivery workers
JobNames == {"EnqueueAlerts", "SendAlerts"}
TasksOf(j) == IF j = "EnqueueAlerts" THEN Detectors ELSE Workers
TaskIds == Detectors \cup Workers
\* Option::None of a job field
None == "None"

ClockValues == {0, 1} \cup {Hour + m : m \in 1..MaxLate}
\* a minute at which a check pinged at any of these is overdue again
LateClock == 2 * Hour + MaxLate + 1

VARIABLES
    now,            \* the database clock, in minutes
    checks,         \* table checks: id -> row
    notifications,  \* table notifications: id -> row
    alerts,         \* table notification_alerts (committed rows): sequence, id = index
    det,            \* detector instance -> its position in the enqueue transaction
    wk,             \* worker instance -> its position in send_alert_batch
    sends,          \* alert id -> what Notifier::send_alert returned for it so far
    storeErrors,    \* number of worker transactions that failed so far
    lastPing,       \* what the last call of the ping handler did and answered
    job,            \* job name -> the fields of its struct and the position of its stop()
    task,           \* loop task -> whether it runs and the state of its shutdown channel
    mask            \* two ping keys and what mask::ping_key returned for each

vars == <<now, checks, notifications, alerts, det, wk, sends, storeErrors, lastPing,
          job, task, mask>>

\* ------------------------------------------------------------------ helpers
Min(a, b) == IF a < b THEN a ELSE b

RECURSIVE SetToSeq(_)
SetToSeq(S) ==
    IF S = {} THEN <<>>
    ELSE LET x == CHOOSE y \in S : TRUE IN <<x>> \o SetToSeq(S \ {x})

AlertIds == 1..Len(alerts)

\* rows of check_notifications: the link between a check and its channels
check_notifications == {<<notifications[n].check_id, n>> : n \in NotifIds}

\* columns the INSERT of the detector leaves to the schema
AlertColumnDefaults(t) ==
    [delivery_status |-> "QUEUED", created_at |-> t, finished_at |-> Null]

\* ------------------------------------------------------------ overdue query
\* CASE units WHEN 'HOURS' THEN INTERVAL '1' HOUR WHEN 'DAYS' THEN INTERVAL '1' DAY END * n
\* (no branch for 'MINUTES': the CASE yields NULL)
PeriodInterval(units, n) ==
    CASE units = "HOURS" -> Hour * n
      [] units = "DAYS" -> Day * n
      [] OTHER -> Null

ping_overdue(c, t) ==
    IF PeriodInterval(c.ping_period_units, c.ping_period) = Null THEN Null
    ELSE IF t > c.last_ping_at + PeriodInterval(c.ping_period_units, c.ping_period)
         THEN SqlTrue ELSE SqlFalse

late_ping_overdue(c, t) ==
    IF \/ PeriodInterval(c.ping_period_units, c.ping_period) = Null
       \/ PeriodInterval(c.grace_period_units, c.grace_period) = Null
    THEN Null
    ELSE IF t > c.last_ping_at + PeriodInterval(c.ping_period_units, c.ping_period)
                               + PeriodInterval(c.grace_period_units, c.grace_period)
         THEN SqlTrue ELSE SqlFalse

\* the rows of overdue_ping_sql evaluated at NOW() = t: (id, status) of each
OverduePings(t) ==
    {[id |-> c, status |-> checks[c].status] : c \in
        {x \in CheckIds :
            /\ checks[x].deleted = FALSE
            /\ checks[x].last_ping_at # Null
            /\ checks[x].status \notin {"CREATED", "PAUSED"}
            /\ \/ ping_overdue(checks[x], t) = SqlTrue
               \/ late_ping_overdue(checks[x], t) = SqlTrue}}

\* the channel query without its NOT EXISTS filter
NotificationsToAlertNoFilter(c, visible) ==
    {n \in NotifIds : <<c, n>> \in check_notifications}

\* the channel query of the detector for check c, over the alert rows the
\* transaction can see (committed rows and its own inserts)
NotificationsToAlert(c, visible) ==
    {n \in NotifIds :
        /\ <<c, n>> \in check_notifications
        /\ ~ \E i \in 1..Len(visible) :
                /\ visible[i].check_id = c
                /\ visible[i].notification_id = n}

\* the row one INSERT INTO notification_alerts adds
NewAlert(c, status, n, t) ==
    [check_id |-> c, check_status |-> status, notification_id |-> n,
     retries_remaining |-> notifications[n].max_retries]
        @@ AlertColumnDefaults(t)

\* -------------------------------------------------------------- claim query
\* rows a worker transaction holds locked: the claimed alert rows and, the
\* FOR UPDATE having no OF clause, the joined notifications and checks rows
HeldAlerts(w) == {r.id : r \in wk[w].claimed}
HeldNotifications(w) == {alerts[i].notification_id : i \in HeldAlerts(w)}
HeldChecks(w) == {notifications[n].check_id : n \in HeldNotifications(w)}

\* the claim query without its WHERE clause
ReadyAnyStatus(i) ==
    /\ notifications[alerts[i].notification_id].deleted = FALSE
    /\ checks[notifications[alerts[i].notification_id].check_id].deleted = FALSE

\* the claim query taking every FAILED alert, whatever its retries_remaining
ReadyFailedAnyRetries(i) ==
    /\ notifications[alerts[i].notification_id].deleted = FALSE
    /\ checks[notifications[alerts[i].notification_id].check_id].deleted = FALSE
    /\ alerts[i].delivery_status \in {"QUEUED", "FAILED"}

\* WHERE clause and joins of the claim query
Ready(i) ==
    /\ notifications[alerts[i].notification_id].deleted = FALSE
    /\ checks[notifications[alerts[i].notification_id].check_id].deleted = FALSE
    /\ \/ alerts[i].delivery_status = "QUEUED"
       \/ /\ alerts[i].delivery_status = "FAILED"
          /\ alerts[i].retries_remaining > 0

\* the claim query without FOR UPDATE SKIP LOCKED
LockedByOtherNoLock(w, i) == FALSE

\* SKIP LOCKED: a joined row is skipped when another transaction holds one of its rows
LockedByOther(w, i) ==
    \E o \in Workers \ {w} :
        \/ i \in HeldAlerts(o)
        \/ alerts[i].notification_id \in HeldNotifications(o)
        \/ notifications[alerts[i].notification_id].check_id \in HeldChecks(o)

Candidates(w) == {i \in AlertIds : Ready(i) /\ ~LockedByOther(w, i)}

\* the claim query without its ORDER BY
ClaimableBatchesAnyOrder(w) ==
    {S \in SUBSET Candidates(w) :
        Cardinality(S) = Min(ClaimLimit, Cardinality(Candidates(w)))}

\* ORDER BY a.created_at ASC LIMIT 10: the possible results (ties in any order)
ClaimableBatches(w) ==
    {S \in SUBSET Candidates(w) :
        /\ Cardinality(S) = Min(ClaimLimit, Cardinality(Candidates(w)))
        /\ \A i \in S, j \in Candidates(w) \ S :
              alerts[i].created_at <= alerts[j].created_at}

\* the NotificationAlert struct read for a claimed row
ClaimedRow(i) ==
    [id |-> i, retries_remaining |-> alerts[i].retries_remaining,
     notification_type |-> notifications[alerts[i].notification_id].notification_type,
     email |-> notifications[alerts[i].notification_id].email,
     url |-> notifications[alerts[i].notification_id].url]

\* ----------------------------------------------------------------- notifier
\* results Notifier::send_alert can return: the webhook path always returns
\* Ok, the email path returns what the Postmark client returns
SendAlertResults(type) ==
    IF type = "WEBHOOK" THEN {"Ok"} ELSE {"Ok", "Err"}

\* alert.email.as_deref().unwrap() and alert.url.as_deref().unwrap(): the
\* call panics when the column of the channel's type is NULL (None)
SendAlertPanics(r) ==
    IF r.notification_type = "WEBHOOK" THEN r.url = None ELSE r.email = None

\* -------------------------------------------------------------------- init
\* with_repository: shutdown_tx: None, join_handle: None
NewJob == [shutdown_tx |-> None, join_handle |-> None, pc |-> "idle",
           awaited |-> None, stopped |-> FALSE]
NoTasks == [k \in TaskIds |-> [st |-> "unspawned", rx |-> "none"]]

\* after the spawn() calls of App::run: the loops run and hold open channels
JobsSpawned ==
    [j \in JobNames |->
        [NewJob EXCEPT !.shutdown_tx = IF j = "EnqueueAlerts" THEN "d1" ELSE "w1",
                       !.join_handle = IF j = "EnqueueAlerts" THEN "d1" ELSE "w1"]]
TasksRunning == [k \in TaskIds |-> [st |-> "running", rx |-> "open"]]

NothingMasked == [key_a |-> <<>>, key_b |-> <<>>, masked |-> FALSE, out_a |-> <<>>, out_b |-> <<>>]

IdleDetector == [pc |-> "idle", tx_start |-> Null, todo |-> {}, found |-> {}, inserted |-> <<>>]
IdleWorker == [pc |-> "idle", tx_start |-> Null, claimed |-> {}, todo |-> {}, sent_alerts |-> {}, failed_alerts |-> {}]

CheckRow(key, status, last, deleted, pp, ppu, gp, gpu) ==
    [ping_key |-> key, status |-> status, last_ping_at |-> last, deleted |-> deleted,
     ping_period |-> pp, ping_period_units |-> ppu,
     grace_period |-> gp, grace_period_units |-> gpu]

InitialNotifications ==
    [n \in NotifIds |->
        CASE n = "n1" -> [check_id |-> "c1", notification_type |-> "EMAIL",
                          email |-> "addr", url |-> None,
                          max_retries |-> 2, deleted |-> FALSE,
                          deleted_at |-> Null]
          [] OTHER -> [check_id |-> "c2", notification_type |-> "EMAIL",
                       email |-> "addr", url |-> None,
                       max_retries |-> 1, deleted |-> FALSE,
                       deleted_at |-> Null]]

\* c1 was never pinged, or was pinged at 0 and marked DOWN since; c2 was
\* never pinged; c3 is soft-deleted
Init ==
    /\ now = 0
    /\ \E first \in {CheckRow("k1", "CREATED", Null, FALSE, 1, "HOURS", 0, "HOURS"),
                     CheckRow("k1", "DOWN", 0, FALSE, 1, "HOURS", 0, "HOURS")} :
          checks = [c \in CheckIds |->
                    CASE c = "c1" -> first
                      [] c = "c2" -> CheckRow("k2", "CREATED", Null, FALSE, 1, "HOURS", 1, "HOURS")
                      [] OTHER -> CheckRow("k3", "UP", 0, TRUE, 1, "HOURS", 0, "HOURS")]
    /\ notifications = InitialNotifications
    /\ alerts = <<>>
    /\ det = [d \in Detectors |-> IdleDetector]
    /\ wk = [w \in Workers |-> IdleWorker]
    /\ sends = <<>>
    /\ storeErrors = 0
    /\ lastPing = [result |-> "none", response |-> "none"]
    /\ job = JobsSpawned
    /\ task = TasksRunning
    /\ mask = NothingMasked

\* c1 was pinged at 0 and c2 at 1: their periods lapse one after the other
InitPinged ==
    /\ now = 1
    /\ checks = [c \in CheckIds |->
                    CASE c = "c1" -> CheckRow("k1", "UP", 0, FALSE, 1, "HOURS", 0, "HOURS")
                      [] c = "c2" -> CheckRow("k2", "UP", 1, FALSE, 1, "HOURS", 1, "HOURS")
                      [] OTHER -> CheckRow("k3", "UP", 0, TRUE, 1, "HOURS", 0, "HOURS")]
    /\ notifications = InitialNotifications
    /\ alerts = <<>>
    /\ det = [d \in Detectors |-> IdleDetector]
    /\ wk = [w \in Workers |-> IdleWorker]
    /\ sends = <<>>
    /\ storeErrors = 0
    /\ lastPing = [result |-> "none", response |-> "none"]
    /\ job = JobsSpawned
    /\ task = TasksRunning
    /\ mask = NothingMasked

\* the minute after a detector tick at Hour + 1 found c1 overdue and queued its
\* alert: c2 (pinged at 1) is overdue now and has no alert yet
InitQueue ==
    /\ now = Hour + MaxLate
    /\ checks = [c \in CheckIds |->
                    CASE c = "c1" -> CheckRow("k1", "UP", 0, FALSE, 1, "HOURS", 0, "HOURS")
                      [] c = "c2" -> CheckRow("k2", "UP", 1, FALSE, 1, "HOURS", 1, "HOURS")
                      [] OTHER -> CheckRow("k3", "UP", 0, TRUE, 1, "HOURS", 0, "HOURS")]
    /\ notifications = InitialNotifications
    /\ alerts = <<NewAlert("c1", "UP", "n1", Hour + 1)>>
    /\ det = [d \in Detectors |-> IdleDetector]
    /\ wk = [w \in Workers |-> IdleWorker]
    /\ sends = <<[Ok |-> 0, Err |-> 0]>>
    /\ storeErrors = 0
    /\ lastPing = [result |-> "none", response |-> "none"]
    /\ job = JobsSpawned
    /\ task = TasksRunning
    /\ mask = NothingMasked

\* checks of each unit of period, all pinged at 0: c1 every 5 minutes, c2
\* every hour, c3 every day
InitUnits ==
    /\ now = 1
    /\ checks = [c \in CheckIds |->
                    CASE c = "c1" -> CheckRow("k1", "UP", 0, FALSE, 5, "MINUTES", 0, "MINUTES")
                      [] c = "c2" -> CheckRow("k2", "UP", 0, FALSE, 1, "HOURS", 0, "HOURS")
                      [] OTHER -> CheckRow("k3", "UP", 0, FALSE, 1, "DAYS", 0, "DAYS")]
    /\ notifications = InitialNotifications
    /\ alerts = <<>>
    /\ det = [d \in Detectors |-> IdleDetector]
    /\ wk = [w \in Workers |-> IdleWorker]
    /\ sends = <<>>
    /\ storeErrors = 0
    /\ lastPing = [result |-> "none", response |-> "none"]
    /\ job = JobsSpawned
    /\ task = TasksRunning
    /\ mask = NothingMasked

\* ------------------------------------------------------------------- clock
Advance ==
    /\ \E t \in ClockValues : t > now /\ now' = t
    /\ UNCHANGED <<job, task, mask, checks, notifications, alerts, det, wk, sends, storeErrors, lastPing>>

AdvanceLate ==
    /\ now < LateClock
    /\ now' = LateClock
    /\ UNCHANGED <<job, task, mask, checks, notifications, alerts, det, wk, sends, storeErrors, lastPing>>

\* -------------------------------------------------------------------- ping
\* SELECT id, uuid FROM checks WHERE ping_key = key AND deleted = false
PingLookup(key) ==
    {c \in CheckIds : checks[c].ping_key = key /\ checks[c].deleted = FALSE}

\* the UPDATE of the ping without its status column
PingUpdateTimestampOnly(c, t) ==
    [x \in CheckIds |->
        IF x = c /\ checks[x].deleted = FALSE
        THEN [checks[x] EXCEPT !.last_ping_at = t]
        ELSE checks[x]]

\* the UPDATE of the ping without `id = c` in its WHERE clause
PingUpdateAllRows(c, t) ==
    [x \in CheckIds |->
        IF checks[x].deleted = FALSE
        THEN [checks[x] EXCEPT !.last_ping_at = t, !.status = "UP"]
        ELSE checks[x]]

\* UPDATE checks SET last_ping_at = t, status = 'UP' WHERE id = c AND deleted = false
PingUpdate(c, t) ==
    [x \in CheckIds |->
        IF x = c /\ checks[x].deleted = FALSE
        THEN [checks[x] EXCEPT !.last_ping_at = t, !.status = "UP"]
        ELSE checks[x]]

\* a handler that answers an unmatched key or an error differently
PingResponseLeaky(result) == IF result \in CheckIds THEN "OK" ELSE "NOT_FOUND"

\* what the handler answers for each result of CheckRepository::ping
PingResponse(result) == "OK"

\* POST /ping/:key with a key that matches check c; the UPDATE waits while a
\* worker transaction holds the row of c locked
PingMatched(key) ==
    \E c \in PingLookup(key) :
        /\ \A w \in Workers : c \notin HeldChecks(w)
        /\ checks' = PingUpdate(c, now)
        /\ lastPing' = [result |-> c, response |-> PingResponse(c)]
        /\ UNCHANGED <<job, task, mask, now, notifications, alerts, det, wk, sends, storeErrors>>

\* POST /ping/:key with a key no non-deleted check has: Err(NotFoundPingKey)
PingUnmatched(key) ==
    /\ PingLookup(key) = {}
    /\ lastPing' = [result |-> "NotFoundPingKey",
                    response |-> PingResponse("NotFoundPingKey")]
    /\ UNCHANGED <<job, task, mask, now, checks, notifications, alerts, det, wk, sends, storeErrors>>

\* POST /ping/:key when a statement of the transaction fails: it is rolled back
PingStoreError(key) ==
    /\ lastPing' = [result |-> "SqlQueryFailed",
                    response |-> PingResponse("SqlQueryFailed")]
    /\ UNCHANGED <<job, task, mask, now, checks, notifications, alerts, det, wk, sends, storeErrors>>

Ping(key) == PingMatched(key) \/ PingUnmatched(key) \/ PingStoreError(key)

\* ---------------------------------------------------------------- detector
\* self.database.transaction(): BEGIN
DetectorBegin(d) ==
    /\ det[d].pc = "idle"
    /\ det' = [det EXCEPT ![d] = [IdleDetector EXCEPT !.pc = "begun", !.tx_start = now]]
    /\ UNCHANGED <<job, task, mask, now, checks, notifications, alerts, wk, sends, storeErrors, lastPing>>

\* the overdue query
DetectorSelectOverdue(d) ==
    /\ det[d].pc = "begun"
    /\ det' = [det EXCEPT ![d].pc = "loop",
                          ![d].found = OverduePings(det[d].tx_start),
                          ![d].todo = OverduePings(det[d].tx_start)]
    /\ UNCHANGED <<job, task, mask, now, checks, notifications, alerts, wk, sends, storeErrors, lastPing>>

\* one iteration of `for ping_details in overdue_pings`: the channel query
\* and one INSERT per channel it returned
DetectorEnqueue(d) ==
    /\ det[d].pc = "loop"
    /\ \E r \in det[d].todo :
          LET ns == NotificationsToAlert(r.id, alerts \o det[d].inserted)
              rows == SetToSeq({NewAlert(r.id, r.status, n, det[d].tx_start) : n \in ns})
          IN det' = [det EXCEPT ![d].todo = @ \ {r},
                                ![d].inserted = @ \o rows]
    /\ UNCHANGED <<job, task, mask, now, checks, notifications, alerts, wk, sends, storeErrors, lastPing>>

\* tx.commit(): the inserted rows become visible
DetectorCommit(d) ==
    /\ det[d].pc = "loop"
    /\ det[d].todo = {}
    /\ alerts' = alerts \o det[d].inserted
    /\ sends' = sends \o [i \in 1..Len(det[d].inserted) |-> [Ok |-> 0, Err |-> 0]]
    /\ det' = [det EXCEPT ![d] = IdleDetector]
    /\ UNCHANGED <<job, task, mask, now, checks, notifications, wk, storeErrors, lastPing>>

\* a statement or the commit fails: `?` returns, the transaction is rolled back
DetectorStoreError(d) ==
    /\ det[d].pc # "idle"
    /\ det' = [det EXCEPT ![d] = IdleDetector]
    /\ UNCHANGED <<job, task, mask, now, checks, notifications, alerts, wk, sends, storeErrors, lastPing>>

\* ------------------------------------------------------------------ worker
\* self.database.transaction(): BEGIN
WorkerBegin(w) ==
    /\ wk[w].pc = "idle"
    /\ wk' = [wk EXCEPT ![w] = [IdleWorker EXCEPT !.pc = "begun", !.tx_start = now]]
    /\ UNCHANGED <<job, task, mask, now, checks, notifications, alerts, det, sends, storeErrors, lastPing>>

\* the claim query: SELECT ... FOR UPDATE SKIP LOCKED
WorkerClaim(w) ==
    /\ wk[w].pc = "begun"
    /\ \E S \in ClaimableBatches(w) :
          wk' = [wk EXCEPT ![w].pc = "send",
                           ![w].claimed = {ClaimedRow(i) : i \in S},
                           ![w].todo = {ClaimedRow(i) : i \in S}]
    /\ UNCHANGED <<job, task, mask, now, checks, notifications, alerts, det, sends, storeErrors, lastPing>>

\* the claimed row the loop `for alert in alerts` takes next (created_at order)
NextToSend(w) ==
    CHOOSE r \in wk[w].todo : \A q \in wk[w].todo :
        \/ alerts[r.id].created_at < alerts[q.id].created_at
        \/ /\ alerts[r.id].created_at = alerts[q.id].created_at
           /\ r.id <= q.id

\* one iteration of the dispatch loop: notifier.send_alert(&alert)
WorkerDispatch(w) ==
    /\ wk[w].pc = "send"
    /\ wk[w].todo # {}
    /\ ~SendAlertPanics(NextToSend(w))
    /\ LET r == NextToSend(w) IN
       \E res \in SendAlertResults(r.notification_type) :
          /\ sends' = [sends EXCEPT ![r.id][res] = @ + 1]
          /\ wk' = [wk EXCEPT ![w].todo = @ \ {r},
                              ![w].sent_alerts = IF res = "Ok" THEN @ \cup {r} ELSE @,
                              ![w].failed_alerts = IF res = "Err" THEN @ \cup {r} ELSE @]
    /\ UNCHANGED <<job, task, mask, now, checks, notifications, alerts, det, storeErrors, lastPing>>

\* a success UPDATE that also rewrites the status the alert was raised for
DeliveredUpdateCheckStatus(row, t) ==
    [row EXCEPT !.delivery_status = "DELIVERED", !.finished_at = t,
                !.check_status = "DOWN"]

\* UPDATE ... SET delivery_status = 'DELIVERED', finished_at = NOW()
DeliveredUpdate(row, t) ==
    [row EXCEPT !.delivery_status = "DELIVERED", !.finished_at = t]

\* the two UPDATEs of the failure loop, chosen by the retries_remaining read
\* at claim time
FailedUpdate(row, claimed_retries, t) ==
    IF claimed_retries <= 0
    THEN [row EXCEPT !.delivery_status = "FAILED", !.retries_remaining = 0,
                     !.finished_at = t]
    ELSE [row EXCEPT !.delivery_status = "FAILED",
                     !.retries_remaining = row.retries_remaining - 1,
                     !.finished_at = t]

\* the two update loops and tx.commit()
WorkerCommit(w) ==
    /\ wk[w].pc = "send"
    /\ wk[w].todo = {}
    /\ alerts' = [i \in AlertIds |->
          IF \E r \in wk[w].sent_alerts : r.id = i
          THEN DeliveredUpdate(alerts[i], wk[w].tx_start)
          ELSE IF \E r \in wk[w].failed_alerts : r.id = i
          THEN FailedUpdate(alerts[i],
                   (CHOOSE r \in wk[w].failed_alerts : r.id = i).retries_remaining,
                   wk[w].tx_start)
          ELSE alerts[i]]
    /\ wk' = [wk EXCEPT ![w] = IdleWorker]
    /\ UNCHANGED <<job, task, mask, now, checks, notifications, det, sends, storeErrors, lastPing>>

\* a transaction that ends without giving up the rows it locked
TxRollbackKeepLocks(w) == [wk[w] EXCEPT !.pc = "idle"]

\* `tx` is dropped uncommitted: ROLLBACK, the transaction holds no row any more
TxRollback(w) == IdleWorker

\* a statement or the commit fails: `?` returns, the transaction is rolled
\* back and its row locks are released
WorkerStoreError(w) ==
    /\ wk[w].pc # "idle"
    /\ storeErrors < MaxStoreErrors
    /\ storeErrors' = storeErrors + 1
    /\ wk' = [wk EXCEPT ![w] = TxRollback(w)]
    /\ UNCHANGED <<job, task, mask, now, checks, notifications, alerts, det, sends, lastPing>>

\* --------------------------------------------------------------------- api
\* Field::updatable(): the columns CheckRepository::update lets through, of
\* the columns the model holds
updatable ==
    {"ping_period", "ping_period_units", "grace_period", "grace_period_units", "status"}

\* the (Field, value) pairs passed as update_fields
UpdateFields ==
    {<<"status", s>> : s \in {"UP", "DOWN", "CREATED"}} \cup {<<"last_ping_at", Null>>}

\* the checks updated through the API: one that exists and the deleted one
UpdatedChecks == {"c1", "c3"}

\* CheckRepository::update(uuid of c, [f]): fields that are not updatable are
\* filtered out; the UPDATE takes the non-deleted row of c and waits while a
\* worker transaction holds that row locked
CheckUpdate(c, f) ==
    /\ f[1] \in updatable => \A w \in Workers : c \notin HeldChecks(w)
    /\ checks' = IF f[1] \in updatable /\ checks[c].deleted = FALSE
                 THEN [checks EXCEPT ![c] = [@ EXCEPT ![f[1]] = f[2]]]
                 ELSE checks
    /\ UNCHANGED <<job, task, mask, now, notifications, alerts, det, wk, sends, storeErrors, lastPing>>

\* NotificationRepository::delete: UPDATE notifications SET deleted = true,
\* deleted_at = NOW() WHERE ... uuid = n; it waits while a worker transaction
\* holds the row locked
NotificationDelete(n) ==
    /\ \A w \in Workers : n \notin HeldNotifications(w)
    /\ notifications' = [notifications EXCEPT ![n].deleted = TRUE, ![n].deleted_at = now]
    /\ UNCHANGED <<job, task, mask, now, checks, alerts, det, wk, sends, storeErrors, lastPing>>

\* -------------------------------------------------------------------- jobs
\* before the jobs are spawned: the alert of c1 is queued (by another
\* server process), c2 is overdue and has no alert yet; n2 is a webhook
\* created through the API, which stores its url in the email column, so its
\* url column is NULL
InitJobs ==
    /\ now = Hour + 1
    /\ checks = [c \in CheckIds |->
                    CASE c = "c1" -> CheckRow("k1", "UP", 0, FALSE, 1, "HOURS", 0, "HOURS")
                      [] c = "c2" -> CheckRow("k2", "UP", 0, FALSE, 1, "HOURS", 1, "HOURS")
                      [] OTHER -> CheckRow("k3", "UP", 0, TRUE, 1, "HOURS", 0, "HOURS")]
    /\ notifications = [InitialNotifications EXCEPT
                            !["n1"].max_retries = 0,
                            !["n2"].notification_type = "WEBHOOK"]
    /\ alerts = <<[check_id |-> "c1", check_status |-> "UP", notification_id |-> "n1",
                   retries_remaining |-> 0] @@ AlertColumnDefaults(Hour + 1)>>
    /\ det = [d \in Detectors |-> IdleDetector]
    /\ wk = [w \in Workers |-> IdleWorker]
    /\ sends = <<[Ok |-> 0, Err |-> 0]>>
    /\ storeErrors = 0
    /\ lastPing = [result |-> "none", response |-> "none"]
    /\ job = [j \in JobNames |-> NewJob]
    /\ task = NoTasks
    /\ mask = NothingMasked

\* the loop tasks of job j in the order its spawn() calls create them
TaskOrder(j) == IF j = "EnqueueAlerts" THEN <<"d1", "d2">> ELSE <<"w1", "w2">>

\* the task the next tokio::spawn of job j creates
NextTask(j) ==
    TaskOrder(j)[CHOOSE i \in 1..Len(TaskOrder(j)) :
                    /\ task[TaskOrder(j)[i]].st = "unspawned"
                    /\ \A q \in 1..(i - 1) : task[TaskOrder(j)[q]].st # "unspawned"]

\* the loop task is inside the handler of its tick branch
InTick(k) == IF k \in Detectors THEN det[k].pc # "idle" ELSE wk[k].pc # "idle"

\* a oneshot::Sender dropped without a send: the receiver completes with Err
DropSender(rx) == IF rx = "open" THEN "closed" ELSE rx

\* a stop() that takes the sender and does not send
ShutdownSendLost(rx) == rx

\* tx.send(()): the receiver completes with Ok (Err when it is gone already)
ShutdownSend(rx) == IF rx = "open" THEN "sent" ELSE rx

\* spawn(): a new channel and a new task; the fields are overwritten, which
\* drops the sender of the previous task and detaches it
Spawn(j) ==
    /\ job[j].pc = "idle"
    /\ \E k \in TasksOf(j) : task[k].st = "unspawned"
    /\ task' = [t \in TaskIds |->
                  IF t = NextTask(j) THEN [st |-> "running", rx |-> "open"]
                  ELSE IF t = job[j].shutdown_tx THEN [task[t] EXCEPT !.rx = DropSender(@)]
                  ELSE task[t]]
    /\ job' = [job EXCEPT ![j].shutdown_tx = NextTask(j),
                          ![j].join_handle = NextTask(j),
                          ![j].stopped = FALSE]
    /\ UNCHANGED <<now, checks, notifications, alerts, det, wk, sends, storeErrors,
                   lastPing, mask>>

\* stop() with a join handle: takes both fields, sends the signal and awaits
\* the handle
StopCall(j) ==
    /\ job[j].pc = "idle"
    /\ job[j].join_handle # None
    /\ task' = [t \in TaskIds |->
                  IF t = job[j].shutdown_tx THEN [task[t] EXCEPT !.rx = ShutdownSend(@)]
                  ELSE task[t]]
    /\ job' = [job EXCEPT ![j].shutdown_tx = None,
                          ![j].join_handle = None,
                          ![j].pc = "awaiting",
                          ![j].awaited = job[j].join_handle,
                          ![j].stopped = FALSE]
    /\ UNCHANGED <<now, checks, notifications, alerts, det, wk, sends, storeErrors,
                   lastPing, mask>>

\* handle.await completes when the task has ended (Err after a panic, which
\* is logged); stop() returns
StopReturn(j) ==
    /\ job[j].pc = "awaiting"
    /\ task[job[j].awaited].st \in {"exited", "panicked"}
    /\ job' = [job EXCEPT ![j].pc = "idle", ![j].awaited = None, ![j].stopped = TRUE]
    /\ UNCHANGED <<now, checks, notifications, alerts, det, wk, sends, storeErrors,
                   lastPing, task, mask>>

\* stop() without a join handle (never spawned, or stopped before): returns
StopNoHandle(j) ==
    /\ job[j].pc = "idle"
    /\ job[j].join_handle = None
    /\ job' = [job EXCEPT ![j].stopped = TRUE]
    /\ UNCHANGED <<now, checks, notifications, alerts, det, wk, sends, storeErrors,
                   lastPing, task, mask>>

\* select! takes the shutdown branch (a message, or the sender is gone): break
TaskExit(k) ==
    /\ task[k].st = "running"
    /\ ~InTick(k)
    /\ task[k].rx \in {"sent", "closed"}
    /\ task' = [task EXCEPT ![k] = [st |-> "exited", rx |-> "dropped"]]
    /\ UNCHANGED <<now, checks, notifications, alerts, det, wk, sends, storeErrors,
                   lastPing, job, mask>>

\* select! takes the interval branch of a running loop: the tick begins
DetectorTick(d) == task[d].st = "running" /\ DetectorBegin(d)
WorkerTick(w) == task[w].st = "running" /\ WorkerBegin(w)

\* notifier.send_alert panics in the dispatch loop: the transaction is
\* dropped (rolled back) and the loop task ends
WorkerPanic(w) ==
    /\ wk[w].pc = "send"
    /\ wk[w].todo # {}
    /\ SendAlertPanics(NextToSend(w))
    /\ wk' = [wk EXCEPT ![w] = IdleWorker]
    /\ task' = [task EXCEPT ![w] = [st |-> "panicked", rx |-> "dropped"]]
    /\ UNCHANGED <<now, checks, notifications, alerts, det, sends, storeErrors,
                   lastPing, job, mask>>

\* ------------------------------------------------------------- a long queue
\* a queue longer than one batch: alert i was created at minute i for channel
\* i of check i, except that channel 14 is a second channel of check 1;
\* alert 2 was delivered, alert 3 has used up its retries, alert 4 failed
\* once and has a retry left, and channel 5 was deleted after its alert was
\* enqueued
BatchAlerts == 1..(ClaimLimit + 5)

InitBatch ==
    /\ now = Hour + 1
    /\ checks = [c \in BatchAlerts |->
                    CheckRow(<<"k", c>>, "UP", 0, FALSE, 1, "HOURS", 0, "HOURS")]
    /\ notifications = [n \in BatchAlerts |->
                    [check_id |-> IF n = 14 THEN 1 ELSE n, notification_type |-> "EMAIL",
                     email |-> "addr", url |-> None,
                     max_retries |-> IF n = 4 THEN 2 ELSE 1, deleted |-> (n = 5),
                     deleted_at |-> IF n = 5 THEN 0 ELSE Null]]
    /\ alerts = [i \in BatchAlerts |->
                    [check_id |-> IF i = 14 THEN 1 ELSE i, check_status |-> "UP",
                     notification_id |-> i,
                     retries_remaining |-> IF i = 3 THEN 0 ELSE 1,
                     delivery_status |-> CASE i = 2 -> "DELIVERED"
                                           [] i \in {3, 4} -> "FAILED"
                                           [] OTHER -> "QUEUED",
                     created_at |-> i,
                     finished_at |-> IF i \in {2, 3, 4} THEN i ELSE Null]]
    /\ det = [d \in Detectors |-> IdleDetector]
    /\ wk = [w \in Workers |-> IdleWorker]
    /\ sends = [i \in BatchAlerts |->
                    [Ok |-> IF i = 2 THEN 1 ELSE 0, Err |-> IF i \in {3, 4} THEN 1 ELSE 0]]
    /\ storeErrors = 0
    /\ lastPing = [result |-> "none", response |-> "none"]
    /\ job = JobsSpawned
    /\ task = TasksRunning
    /\ mask = NothingMasked

\* -------------------------------------------------------------------- mask
\* characters of ping keys: keys are ShortIds (hashids), one byte per
\* character, so the byte length and byte slice of the code are the length
\* and the leading characters of the key
KeyChars == {"a", "b"}

RECURSIVE KeysOfLen(_)
KeysOfLen(n) ==
    IF n = 0 THEN {<<>>}
    ELSE {Append(k, ch) : k \in KeysOfLen(n - 1), ch \in KeyChars}

PingKeys == UNION {KeysOfLen(n) : n \in 0..MaxKeyLen}

\* const DEFAULT_MASK: &str = "************"
DEFAULT_MASK == [i \in 1..12 |-> "*"]

\* a masking that keeps the whole key in front of the mask
ping_key_whole(key) ==
    IF Len(key) < 4 THEN DEFAULT_MASK ELSE key \o DEFAULT_MASK

\* mask::ping_key
ping_key(key) ==
    IF Len(key) < 4 THEN DEFAULT_MASK ELSE SubSeq(key, 1, 4) \o DEFAULT_MASK

\* the keys of two pings
InitMask ==
    /\ now = 0
    /\ checks = [c \in CheckIds |-> CheckRow("k1", "CREATED", Null, FALSE, 1, "HOURS", 0, "HOURS")]
    /\ notifications = InitialNotifications
    /\ alerts = <<>>
    /\ det = [d \in Detectors |-> IdleDetector]
    /\ wk = [w \in Workers |-> IdleWorker]
    /\ sends = <<>>
    /\ storeErrors = 0
    /\ lastPing = [result |-> "none", response |-> "none"]
    /\ job = JobsSpawned
    /\ task = TasksRunning
    /\ \E a \in PingKeys, b \in PingKeys :
          mask = [NothingMasked EXCEPT !.key_a = a, !.key_b = b]

\* the handler builds the log field key = mask::ping_key(key) of each ping
MaskKeys ==
    /\ mask.masked = FALSE
    /\ mask' = [mask EXCEPT !.masked = TRUE,
                             !.out_a = ping_key(mask.key_a),
                             !.out_b = ping_key(mask.key_b)]
    /\ UNCHANGED <<now, checks, notifications, alerts, det, wk, sends, storeErrors,
                   lastPing, job, task>>

SpecMask == InitMask /\ [][MaskKeys]_vars

\* ------------------------------------------------------------ specification
\* one server process: one detector loop, one worker loop, the ping endpoint
Next ==
    \/ Advance
    \/ \E key \in Keys : Ping(key)
    \/ \E d \in OneDetector : DetectorBegin(d)
    \/ \E d \in OneDetector : DetectorSelectOverdue(d)
    \/ \E d \in OneDetector : DetectorEnqueue(d)
    \/ \E d \in OneDetector : DetectorCommit(d)
    \/ \E d \in OneDetector : DetectorStoreError(d)
    \/ \E w \in OneWorker : WorkerBegin(w)
    \/ \E w \in OneWorker : WorkerClaim(w)
    \/ \E w \in OneWorker : WorkerDispatch(w)
    \/ \E w \in OneWorker : WorkerCommit(w)
    \/ \E w \in OneWorker : WorkerStoreError(w)

Spec == Init /\ [][Next]_vars

\* one server process over two outages of a check
NextOutage ==
    \/ Advance
    \/ AdvanceLate
    \/ \E key \in Keys : Ping(key)
    \/ \E d \in OneDetector : DetectorBegin(d)
    \/ \E d \in OneDetector : DetectorSelectOverdue(d)
    \/ \E d \in OneDetector : DetectorEnqueue(d)
    \/ \E d \in OneDetector : DetectorCommit(d)
    \/ \E d \in OneDetector : DetectorStoreError(d)
    \/ \E w \in OneWorker : WorkerBegin(w)
    \/ \E w \in OneWorker : WorkerClaim(w)
    \/ \E w \in OneWorker : WorkerDispatch(w)
    \/ \E w \in OneWorker : WorkerCommit(w)
    \/ \E w \in OneWorker : WorkerStoreError(w)

SpecOutage == Init /\ [][NextOutage]_vars

\* two delivery workers against the queue one detector fills, within one minute
NextWorkers ==
    \/ \E d \in OneDetector : DetectorBegin(d)
    \/ \E d \in OneDetector : DetectorSelectOverdue(d)
    \/ \E d \in OneDetector : DetectorEnqueue(d)
    \/ \E d \in OneDetector : DetectorCommit(d)
    \/ \E d \in OneDetector : DetectorStoreError(d)
    \/ \E w \in Workers : WorkerBegin(w)
    \/ \E w \in Workers : WorkerClaim(w)
    \/ \E w \in Workers : WorkerDispatch(w)
    \/ \E w \in Workers : WorkerCommit(w)
    \/ \E w \in Workers : WorkerStoreError(w)

SpecWorkers == InitQueue /\ [][NextWorkers]_vars

\* two delivery workers against a queue longer than one batch, their
\* transactions running to the commit
NextBatch ==
    \/ \E w \in Workers : WorkerBegin(w)
    \/ \E w \in Workers : WorkerClaim(w)
    \/ \E w \in Workers : WorkerDispatch(w)
    \/ \E w \in Workers : WorkerCommit(w)

SpecBatch == InitBatch /\ [][NextBatch]_vars

\* two detector instances filling the queue
NextDetectors ==
    \/ Advance
    \/ \E d \in Detectors : DetectorBegin(d)
    \/ \E d \in Detectors : DetectorSelectOverdue(d)
    \/ \E d \in Detectors : DetectorEnqueue(d)
    \/ \E d \in Detectors : DetectorCommit(d)
    \/ \E d \in Detectors : DetectorStoreError(d)

SpecDetectors == InitPinged /\ [][NextDetectors]_vars

\* the two jobs of one server process under spawn() and stop()
NextJobs ==
    \/ \E j \in JobNames : Spawn(j)
    \/ \E j \in JobNames : StopCall(j)
    \/ \E j \in JobNames : StopReturn(j)
    \/ \E j \in JobNames : StopNoHandle(j)
    \/ \E k \in TaskIds : TaskExit(k)
    \/ \E d \in Detectors : DetectorTick(d)
    \/ \E d \in Detectors : DetectorSelectOverdue(d)
    \/ \E d \in Detectors : DetectorEnqueue(d)
    \/ \E d \in Detectors : DetectorCommit(d)
    \/ \E d \in Detectors : DetectorStoreError(d)
    \/ \E w \in Workers : WorkerTick(w)
    \/ \E w \in Workers : WorkerClaim(w)
    \/ \E w \in Workers : WorkerDispatch(w)
    \/ \E w \in Workers : WorkerCommit(w)
    \/ \E w \in Workers : WorkerStoreError(w)
    \/ \E w \in Workers : WorkerPanic(w)

SpecJobs == InitJobs /\ [][NextJobs]_vars

\* every tick terminates, handle.await completes once the task has ended, and
\* select!, which picks at random among its ready branches, does not pass
\* over a ready shutdown branch forever
\* the SendAlerts job alone, its queue holding the alert of c1
NextSendAlerts ==
    \/ Spawn("SendAlerts")
    \/ StopCall("SendAlerts")
    \/ StopReturn("SendAlerts")
    \/ StopNoHandle("SendAlerts")
    \/ \E w \in Workers : TaskExit(w)
    \/ \E w \in Workers : WorkerTick(w)
    \/ \E w \in Workers : WorkerClaim(w)
    \/ \E w \in Workers : WorkerDispatch(w)
    \/ \E w \in Workers : WorkerCommit(w)
    \/ \E w \in Workers : WorkerStoreError(w)

SpecSendAlertsFair ==
    /\ InitJobs
    /\ [][NextSendAlerts]_vars
    /\ \A w \in Workers : SF_vars(TaskExit(w))
    /\ \A w \in Workers :
          WF_vars(WorkerClaim(w) \/ WorkerDispatch(w) \/ WorkerCommit(w))
    /\ WF_vars(StopReturn("SendAlerts"))

\* the detectors over checks of every unit of period
SpecUnits == InitUnits /\ [][NextDetectors]_vars

\* one server process and the management API: pings, one detector loop,
\* updates of checks and deletions of channels
NextApi ==
    \/ Advance
    \/ \E key \in Keys : Ping(key)
    \/ \E d \in OneDetector : DetectorBegin(d)
    \/ \E d \in OneDetector : DetectorSelectOverdue(d)
    \/ \E d \in OneDetector : DetectorEnqueue(d)
    \/ \E d \in OneDetector : DetectorCommit(d)
    \/ \E d \in OneDetector : DetectorStoreError(d)
    \/ \E c \in UpdatedChecks : \E f \in UpdateFields : CheckUpdate(c, f)
    \/ \E n \in NotifIds : NotificationDelete(n)

SpecApi == InitPinged /\ [][NextApi]_vars

\* one detector loop and one worker loop that keep ticking, every dispatch
\* returning, while channels are deleted through the API
NextSettle ==
    \/ \E d \in OneDetector : DetectorBegin(d)
    \/ \E d \in OneDetector : DetectorSelectOverdue(d)
    \/ \E d \in OneDetector : DetectorEnqueue(d)
    \/ \E d \in OneDetector : DetectorCommit(d)
    \/ \E w \in OneWorker : WorkerBegin(w)
    \/ \E w \in OneWorker : WorkerClaim(w)
    \/ \E w \in OneWorker : WorkerDispatch(w)
    \/ \E w \in OneWorker : WorkerCommit(w)
    \/ \E n \in NotifIds : NotificationDelete(n)

SpecSettleFair ==
    /\ InitQueue
    /\ [][NextSettle]_vars
    /\ \A w \in OneWorker :
          /\ WF_vars(WorkerBegin(w))
          /\ WF_vars(WorkerClaim(w))
          /\ WF_vars(WorkerDispatch(w))
          /\ WF_vars(WorkerCommit(w))


TypeOK ==
    /\ now \in ClockValues \cup {LateClock}
    /\ \A i \in AlertIds : alerts[i].delivery_status \in {"QUEUED", "DELIVERED", "FAILED"}
    /\ Len(sends) = Len(alerts)

\* ------------------------------------------------------------------ claims
\* an alert no worker will claim again
Terminal(a) ==
    \/ a.delivery_status = "DELIVERED"
    \/ a.delivery_status = "FAILED" /\ a.retries_remaining <= 0

\* the non-terminal alerts of the pair (check c, channel n)
Outstanding(c, n) ==
    {i \in AlertIds : /\ alerts[i].check_id = c
                      /\ alerts[i].notification_id = n
                      /\ ~Terminal(alerts[i])}

\* C1: no double-claim. The alert rows claimed by two send_alert_batch
\* transactions that are open at the same time are disjoint, so the union of
\* the two claims holds no alert id twice.
C1_NoDoubleClaim ==
    \A w \in Workers, o \in Workers :
        w # o => HeldAlerts(w) \cap HeldAlerts(o) = {}

C1_Witness ==
    /\ HeldAlerts("w1") # {}
    /\ HeldAlerts("w2") # {}

\* C2 as stated: the Notifier returns success for an alert id at most once.
C2_AtMostOneSuccess ==
    \A i \in AlertIds : sends[i].Ok <= 1

\* C2 as amended: an alert whose successful dispatch was committed (it is
\* DELIVERED) is never dispatched again, and the Notifier returns success for
\* an alert a second time only after the batch transaction that dispatched
\* it failed before its commit.
C2_NoDispatchAfterDelivered ==
    /\ [](\A i \in AlertIds : sends[i].Ok <= 1 + storeErrors)
    /\ [][\A i \in AlertIds :
            alerts[i].delivery_status = "DELIVERED" => sends'[i] = sends[i]]_vars

C2_Witness ==
    \E i \in AlertIds, w \in Workers :
        /\ alerts[i].delivery_status = "DELIVERED"
        /\ sends[i].Ok = 1
        /\ wk[w].pc = "send"
        /\ wk[w].sent_alerts # {}

\* C3: idempotent enqueue. With one detector, a pair (check, channel) never
\* has two outstanding alerts; a tick that commits while the pair has one
\* outstanding alert leaves exactly that one; and a committed tick that found
\* the check overdue leaves an alert for each of its channels.
C3_IdempotentEnqueue ==
    /\ [](\A c \in CheckIds, n \in NotifIds : Cardinality(Outstanding(c, n)) <= 1)
    /\ [][\A d \in Detectors, c \in CheckIds, n \in NotifIds :
            DetectorCommit(d) =>
              /\ Cardinality(Outstanding(c, n)) = 1 =>
                    Outstanding(c, n)' = Outstanding(c, n)
              /\ (<<c, n>> \in check_notifications /\ \E r \in det[d].found : r.id = c) =>
                    \E i \in 1..Len(alerts') :
                        alerts'[i].check_id = c /\ alerts'[i].notification_id = n]_vars

\* a second tick is about to commit for a check that already has its alert
C3_Witness ==
    \E d \in Detectors : \E r \in det[d].found :
        /\ det[d].pc = "loop"
        /\ det[d].todo = {}
        /\ det[d].inserted = <<>>
        /\ Cardinality(Outstanding(r.id, "n1")) = 1

\* C4 as stated: once the concurrent detector ticks have committed, a pair
\* (check, channel) has at most one non-terminal alert.
C4_AtMostOneOutstandingAfterCommit ==
    (\A d \in Detectors : det[d].pc = "idle") =>
        \A c \in CheckIds, n \in NotifIds : Cardinality(Outstanding(c, n)) <= 1

\* the check row is selected by the overdue query evaluated at t
IsOverdueAt(c, t) == \E r \in OverduePings(t) : r.id = c

\* C5 as stated: when a detector tick commits, every check it found overdue
\* (and that is still overdue) has status DOWN.
C5_OverdueSetsDown ==
    [][\A d \in Detectors :
          DetectorCommit(d) =>
             \A r \in det[d].found :
                IsOverdueAt(r.id, det[d].tx_start) => checks'[r.id].status = "DOWN"]_vars

\* C6: ping updates state. A ping with the exact key of a non-deleted check,
\* whatever the check's status, sets status = UP and last_ping_at = the ping
\* time in one step and returns the identifier of that check.
C6_PingUpdatesState ==
    [][\A key \in Keys :
          PingMatched(key) =>
             \E c \in CheckIds :
                /\ checks[c].ping_key = key
                /\ checks[c].deleted = FALSE
                /\ checks'[c].status = "UP"
                /\ checks'[c].last_ping_at = now
                /\ lastPing'.result = c]_vars

\* c1 was found overdue and alerted on, and a ping then brought it back UP
C6_Witness ==
    /\ lastPing.result = "c1"
    /\ checks["c1"].status = "UP"
    /\ checks["c1"].last_ping_at = now
    /\ now > Hour
    /\ \E i \in AlertIds : alerts[i].check_id = "c1" /\ alerts[i].created_at <= now

\* C7: frame of the ping. A ping changes only status and last_ping_at of the
\* non-deleted check whose key matches; with a key of no non-deleted check it
\* changes no row; and it never touches an alert, a channel or a job.
C7_PingFrame ==
    [][\A key \in Keys :
          Ping(key) =>
             /\ alerts' = alerts
             /\ sends' = sends
             /\ notifications' = notifications
             /\ det' = det /\ wk' = wk
             /\ PingLookup(key) = {} => checks' = checks
             /\ \A c \in CheckIds :
                   checks'[c] # checks[c] =>
                      /\ checks[c].ping_key = key
                      /\ checks[c].deleted = FALSE
                      /\ checks'[c] = [checks[c] EXCEPT
                                          !.status = checks'[c].status,
                                          !.last_ping_at = checks'[c].last_ping_at]]_vars

\* a ping with an unmatched key arrived while an alert was queued
C7_Witness ==
    /\ lastPing.result = "NotFoundPingKey"
    /\ \E i \in AlertIds : alerts[i].delivery_status = "QUEUED"

\* C8: no key leak. Whatever CheckRepository::ping returned (a check, not
\* found, a store error), the handler answered "OK".
C8_NoKeyLeak ==
    lastPing.result # "none" => lastPing.response = "OK"

C8_Witness ==
    /\ lastPing.result = "SqlQueryFailed"
    /\ lastPing.response = "OK"

\* C9 as stated: an alert that is FAILED with retries_remaining = 0 has had
\* max_retries + 1 failed dispatch attempts.
C9_RetryExhaustion ==
    \A i \in AlertIds :
        (alerts[i].delivery_status = "FAILED" /\ alerts[i].retries_remaining = 0) =>
            sends[i].Err >= notifications[alerts[i].notification_id].max_retries + 1

\* C10 as stated: a DELIVERED alert has a finished_at that is not null and
\* not before its created_at.
C10_RoundTrip ==
    \A i \in AlertIds :
        alerts[i].delivery_status = "DELIVERED" =>
            /\ alerts[i].finished_at # Null
            /\ alerts[i].finished_at >= alerts[i].created_at

\* C11 as stated: every alert a committed detector tick created is QUEUED,
\* records check_status = DOWN and carries retries_remaining = max_retries
\* of its channel, and the tick created exactly one alert for each channel
\* of a check it found overdue whose pair had no outstanding alert.
C11_EnqueueContents ==
    [][\A d \in Detectors :
          DetectorCommit(d) =>
             /\ \A k \in 1..Len(det[d].inserted) :
                   /\ det[d].inserted[k].delivery_status = "QUEUED"
                   /\ det[d].inserted[k].check_status = "DOWN"
                   /\ det[d].inserted[k].retries_remaining =
                         notifications[det[d].inserted[k].notification_id].max_retries
             /\ \A r \in det[d].found, n \in NotifIds :
                   (<<r.id, n>> \in check_notifications /\ Outstanding(r.id, n) = {}) =>
                      Cardinality({k \in 1..Len(det[d].inserted) :
                                     /\ det[d].inserted[k].check_id = r.id
                                     /\ det[d].inserted[k].notification_id = n}) = 1]_vars

\* C12 as stated: when a detector tick processes a check c that is overdue
\* again (c was pinged after the last alert of the pair (c, n) was created,
\* and every alert of the pair is terminal), it enqueues a new alert for the
\* pair.
C12_ReAlertOnNewOutage ==
    [][\A d \in Detectors :
          DetectorEnqueue(d) =>
             \A r \in det[d].todo \ det'[d].todo, n \in NotifIds :
                (/\ <<r.id, n>> \in check_notifications
                 /\ IsOverdueAt(r.id, det[d].tx_start)
                 /\ \E i \in AlertIds :
                        alerts[i].check_id = r.id /\ alerts[i].notification_id = n
                 /\ \A i \in AlertIds :
                        (alerts[i].check_id = r.id /\ alerts[i].notification_id = n) =>
                            /\ Terminal(alerts[i])
                            /\ checks[r.id].last_ping_at >= alerts[i].created_at
                            /\ checks[r.id].last_ping_at >= alerts[i].finished_at)
                => \E k \in 1..Len(det'[d].inserted) :
                      /\ det'[d].inserted[k].check_id = r.id
                      /\ det'[d].inserted[k].notification_id = n]_vars

\* C13 as stated: every alert a detector tick created is for a check whose
\* grace period had run out when the tick read the clock.
C13_GracePeriod ==
    [][\A d \in Detectors :
          DetectorCommit(d) =>
             \A k \in 1..Len(det[d].inserted) :
                late_ping_overdue(checks[det[d].inserted[k].check_id],
                                  det[d].tx_start) = SqlTrue]_vars

\* C18 as stated: a store failure of a detector tick that has already
\* processed an overdue check and still has another to process does not
\* roll back the alerts enqueued for the processed check: they are in the
\* table after the failure.
C18_PerCheckIsolation ==
    [][\A d \in Detectors :
          (DetectorStoreError(d) /\ det[d].pc = "loop" /\ det[d].todo # {}) =>
             \A k \in 1..Len(det[d].inserted) :
                \E i \in 1..Len(alerts') :
                    /\ alerts'[i].check_id = det[d].inserted[k].check_id
                    /\ alerts'[i].notification_id = det[d].inserted[k].notification_id]_vars

\* the period the spec's conversion gives: MINUTES, HOURS and DAYS alike
PeriodMinutes(units, n) ==
    CASE units = "MINUTES" -> n
      [] units = "HOURS" -> Hour * n
      [] units = "DAYS" -> Day * n

\* C19 as stated: the overdue query of a tick selects every eligible check
\* whose ping period, converted by its unit (MINUTES included), had lapsed
\* when the tick read the clock.
C19_UnitConversion ==
    \A d \in Detectors :
        det[d].pc = "loop" =>
            \A c \in CheckIds :
                (/\ checks[c].deleted = FALSE
                 /\ checks[c].last_ping_at # Null
                 /\ checks[c].status \notin {"CREATED", "PAUSED"}
                 /\ det[d].tx_start > checks[c].last_ping_at
                        + PeriodMinutes(checks[c].ping_period_units, checks[c].ping_period))
                => \E r \in det[d].found : r.id = c

\* C17: ping-key masking. The output of mask::ping_key is at most the first
\* 4 characters of the key followed by the mask of 12 asterisks; a key
\* shorter than 4 characters gives the mask alone; and two keys with the same
\* first 4 characters give the same output.
C17_KeyMasking ==
    mask.masked =>
        /\ \E n \in 0..4 :
              /\ n <= Len(mask.key_a)
              /\ Len(mask.out_a) = n + 12
              /\ \A i \in 1..n : mask.out_a[i] = mask.key_a[i]
              /\ \A i \in (n + 1)..(n + 12) : mask.out_a[i] = "*"
        /\ Len(mask.key_a) < 4 => Len(mask.out_a) = 12
        /\ (/\ Len(mask.key_a) >= 4
            /\ Len(mask.key_b) >= 4
            /\ SubSeq(mask.key_a, 1, 4) = SubSeq(mask.key_b, 1, 4))
           => mask.out_a = mask.out_b

\* two different keys of 5 characters with the same first 4 were masked
C17_Witness ==
    /\ mask.masked
    /\ Len(mask.key_a) = 5
    /\ Len(mask.key_b) = 5
    /\ mask.key_a # mask.key_b
    /\ SubSeq(mask.key_a, 1, 4) = SubSeq(mask.key_b, 1, 4)
    /\ mask.out_a = mask.out_b

\* delivery_status = 'QUEUED' OR (delivery_status = 'FAILED' AND retries_remaining > 0)
StatusReady(a) ==
    \/ a.delivery_status = "QUEUED"
    \/ a.delivery_status = "FAILED" /\ a.retries_remaining > 0

C14_StopIsBarrier ==
    \A j \in JobNames :
        job[j].stopped => \A k \in TasksOf(j) : ~InTick(k)

\* C15: stop terminates. A stop() that awaits the loop task eventually
\* returns, and a stop() of a job that holds no join handle (never spawned,
\* or stopped before) returns at once: it sends nothing and awaits nothing.
C15_StopTerminates ==
    /\ \A j \in JobNames : (job[j].pc = "awaiting") ~> (job[j].pc = "idle")
    /\ [][\A j \in JobNames :
            StopNoHandle(j) => (job'[j].pc = "idle" /\ task' = task)]_vars

\* a stop() has returned, the loop task has ended and a tick had dispatched
\* an alert
C15_Witness ==
    \E j \in JobNames, k \in TaskIds :
        /\ job[j].stopped
        /\ k \in TasksOf(j)
        /\ task[k].st = "exited"
        /\ \E i \in AlertIds : sends[i].Ok + sends[i].Err > 0

\* C16 as stated: a loop task ends only by its shutdown branch; whatever a
\* tick ran into, the task of a job that was not stopped or spawned again is
\* running.
C16_FailuresKeepLoop ==
    \A k \in TaskIds : task[k].st # "panicked"

\* a worker step that is the commit of its batch transaction
CommitStep(w) ==
    /\ wk[w].pc = "send"
    /\ wk[w].todo = {}
    /\ wk'[w].pc = "idle"
    /\ storeErrors' = storeErrors
    /\ task' = task

\* C21 as stated: a committed failure of an alert claimed with
\* retries_remaining > 0 takes exactly 1 off retries_remaining, leaves it
\* FAILED and still eligible for a later claim; a failure of an alert claimed
\* with retries_remaining <= 0 leaves it FAILED with retries_remaining = 0.
C21_FailureStep ==
    [][\A w \in Workers :
          CommitStep(w) =>
             \A r \in wk[w].failed_alerts :
                IF alerts[r.id].retries_remaining > 0
                THEN /\ alerts'[r.id].retries_remaining = alerts[r.id].retries_remaining - 1
                     /\ alerts'[r.id].delivery_status = "FAILED"
                     /\ StatusReady(alerts'[r.id])
                ELSE /\ alerts'[r.id].delivery_status = "FAILED"
                     /\ alerts'[r.id].retries_remaining = 0]_vars

\* C22 as stated: an alert with a finished_at is terminal (DELIVERED, or
\* FAILED with no retry left); an alert that can still be claimed has none.
C22_FinishedAtTerminalOnly ==
    \A i \in AlertIds : alerts[i].finished_at # Null => Terminal(alerts[i])

\* C23: terminal alerts are immutable. No step of a worker, a detector or a
\* ping changes a column of an alert that is DELIVERED or FAILED with
\* retries_remaining = 0, and no such alert is dispatched again.
C23_TerminalImmutable ==
    [][\A i \in AlertIds :
          Terminal(alerts[i]) =>
             /\ i \in 1..Len(alerts')
             /\ alerts'[i] = alerts[i]
             /\ sends'[i] = sends[i]
             /\ \A w \in Workers : i \notin HeldAlerts(w)']_vars

\* an alert failed for good, and a later tick of the worker has run its claim
\* query and a ping was taken since
C23_Witness ==
    \E i \in AlertIds :
        /\ alerts[i].delivery_status = "FAILED"
        /\ alerts[i].retries_remaining = 0
        /\ wk["w1"].pc = "send"
        /\ lastPing.result = alerts[i].check_id
        /\ checks[alerts[i].check_id].last_ping_at > alerts[i].finished_at

\* C25: a batch is all-or-nothing on a store error. The step that fails a
\* worker's transaction leaves every alert row as it was before the claim,
\* the worker holds no row afterwards, and each alert it had claimed can be
\* claimed by any worker's next claim query.
C25_BatchRollback ==
    [][\A w \in Workers :
          WorkerStoreError(w) =>
             /\ alerts' = alerts
             /\ HeldAlerts(w)' = {}
             /\ \A i \in HeldAlerts(w) : \A o \in Workers : i \in Candidates(o)']_vars

\* a batch failed after one of its alerts was dispatched with success: the
\* alert is QUEUED still and no worker holds it
C25_Witness ==
    \E i \in AlertIds :
        /\ storeErrors > 0
        /\ sends[i].Ok > 0
        /\ alerts[i].delivery_status = "QUEUED"
        /\ alerts[i].finished_at = Null
        /\ \A w \in Workers : i \notin HeldAlerts(w)

\* C30: frame of the delivery worker. A step of a worker's tick leaves every
\* check and channel as it was, adds and removes no alert, changes no column
\* of an alert other than delivery_status, retries_remaining and
\* finished_at, and changes no alert the worker had not claimed.
C30_WorkerFrame ==
    [][\A w \in Workers :
          wk'[w] # wk[w] =>
             /\ checks' = checks
             /\ notifications' = notifications
             /\ Len(alerts') = Len(alerts)
             /\ \A i \in AlertIds :
                   /\ alerts'[i] # alerts[i] => i \in HeldAlerts(w)
                   /\ [alerts'[i] EXCEPT
                          !.delivery_status = alerts[i].delivery_status,
                          !.retries_remaining = alerts[i].retries_remaining,
                          !.finished_at = alerts[i].finished_at] = alerts[i]]_vars

\* a worker committed the update of the alert it had claimed while another
\* alert, which it had not claimed, is queued and was never dispatched
C30_Witness ==
    \E i \in AlertIds, j \in AlertIds :
        /\ i # j
        /\ alerts[i].delivery_status = "DELIVERED"
        /\ alerts[j].delivery_status = "QUEUED"
        /\ alerts[j].created_at <= alerts[i].finished_at
        /\ sends[j].Ok + sends[j].Err = 0

\* C29 as stated: no false alert from a ping/detector race. When a detector
\* tick commits, every check it inserted an alert for is overdue still: the
\* commit time is past its last_ping_at + ping_period.
C29_NoFalseAlert ==
    [][\A d \in Detectors :
          DetectorCommit(d) =>
             \A k \in 1..Len(det[d].inserted) :
                ping_overdue(checks[det[d].inserted[k].check_id], now) = SqlTrue]_vars

\* C28 as stated: a ping is never blocked by alert delivery. While a worker
\* holds its batch transaction open, the ping of a check that has an alert
\* in the batch can take its update.
C28_PingNotBlocked ==
    \A w \in Workers : \A c \in HeldChecks(w) :
        checks[c].ping_key \in Keys => ENABLED PingMatched(checks[c].ping_key)

C26_DeletedNotAlerted ==
    [][\A d \in Detectors :
          DetectorEnqueue(d) =>
             \A k \in (Len(det[d].inserted) + 1)..Len(det'[d].inserted) :
                ~ /\ notifications[det'[d].inserted[k].notification_id].deleted
                  /\ notifications[det'[d].inserted[k].notification_id].deleted_at
                        < det[d].tx_start]_vars

\* C27 as stated: every enqueued alert is eventually settled. With the
\* worker ticking and every dispatch returning, each alert in the queue
\* eventually is DELIVERED or FAILED with retries_remaining = 0, whether or
\* not its channel was deleted after it was enqueued.
C27_EventuallySettled ==
    \A i \in 1..Cardinality(NotifIds) :
        (i \in AlertIds) ~> (i \in AlertIds /\ Terminal(alerts[i]))

====
